---- MODULE Spec2Model ----
(***************************************************************************)
(* Model of the IapticStripe client SDK (src/unnamed/part_000, the second  *)
(* class definition, lines 658-1464): the persisted credential store, the  *)
(* purchase lookup / plan change calls and the RefreshScheduler.           *)
(*                                                                         *)
(* Time is Date.now() in milliseconds.  The clock is observed at multiples *)
(* of the 10 s expiry margin, so every instant the code computes           *)
(* (T - 10000, T + 10000, now + 10000, now + 30000) is representable.      *)
(*                                                                         *)
(* JavaScript null / undefined / "" are all falsy and the code only tests  *)
(* them with ! and ||, so they are modelled by the single value Null.      *)
(* The credential map is a total function over Ids; an id with no entry    *)
(* maps to Null.                                                           *)
(*                                                                         *)
(* A ScheduledRefresh object is a record of heap.  Besides the six fields  *)
(* of the code it carries: listed (it is an element of                     *)
(* RefreshScheduler.schedules; the code reads that array only through      *)
(* some/find, so its order is immaterial), armed (the window.setTimeout    *)
(* callback closed over it is pending), gen (tells apart objects that      *)
(* clearSchedules removed from the array while equal in every field) and   *)
(* the history field past (scheduledAt <= now held when it was            *)
(* registered).  A task with inProgress = TRUE is a callback suspended at  *)
(* its await: its lookup is in flight.  An object that is neither listed,  *)
(* armed nor in progress is unreachable and is dropped.                    *)
(*                                                                         *)
(* localStorage either works ("ok"), refuses writes ("full": setItem       *)
(* throws, as on an exceeded quota) or refuses every access ("denied":     *)
(* getItem, setItem and removeItem throw).                                 *)
(***************************************************************************)
EXTENDS Integers, Sequences, FiniteSets, TLC

VARIABLES
    now,             \* Date.now()
    accessKeys,      \* localStorage 'iaptic_access_keys': id -> token
    sessionId,       \* localStorage 'iaptic_session_id'
    subscriptionId,  \* localStorage 'iaptic_subscription_id'
    heap,            \* the ScheduledRefresh objects still referenced by the page
    calls,           \* the application's requests in flight, per operation
    last,            \* history: the outcome of the latest operation
    products,        \* localStorage 'iaptic_products': the cached catalog
    storage          \* the condition of localStorage

vars == <<now, accessKeys, sessionId, subscriptionId, heap, calls, last, products, storage>>

-----------------------------------------------------------------------------
(* Bounds of the model *)

MaxTicks == 4
MaxTasks == 3
MaxCalls == 1
MaxWaits == 4
MaxFetches == 2
MaxChain == 5
ChainTicks == 3

(* Program constants *)

ExpiryMargin == 10000
RetryDelay == 30000
VerifyDelay == 10000
FreshnessWindow == 60000

Null == ""

SessionIds == {"cs_1"}
SubIds == {"sub_1", "sub_2"}
Ids == SessionIds \cup SubIds
Dates == {k * ExpiryMargin : k \in 1..(MaxTicks - 1)}

(* Arguments the application passes explicitly *)
ArgIds == {Null, "sub_1"}
ArgKeys == {Null, "k1"}
ArgDates == {k * ExpiryMargin : k \in 1..MaxTicks}

(* the instants of the tasks of the two-subscription specification *)
PairDates == {ExpiryMargin, 2 * ExpiryMargin}

(* the expiration date every lookup of the refresh chain reports *)
ChainDate == 2 * ExpiryMargin

(* String.prototype.startsWith *)
StartsWith(s, p) == Len(s) >= Len(p) /\ SubSeq(s, 1, Len(p)) = p

-----------------------------------------------------------------------------
(* Credential & identity store *)

Store == [keys |-> accessKeys, sessionId |-> sessionId, subscriptionId |-> subscriptionId]

(* keys[id] of the parsed JSON map: falsy when absent, also for id = null *)
KeyOf(keys, id) == IF id \in DOMAIN keys THEN keys[id] ELSE Null

(* _setSessionId writing the subscription pointer's item *)
_setSessionIdOtherItem(st, id) == [st EXCEPT !.sessionId = id, !.subscriptionId = id]

_setSessionId(st, id) == [st EXCEPT !.sessionId = id]

_setSubscriptionId(st, id) == [st EXCEPT !.subscriptionId = id]

(* _storeAccessKey setting the subscription pointer only when none is set *)
_storeAccessKeyFirstOnly(st, id, accessKey) ==
    LET st1 == IF StartsWith(id, "sub_") /\ st.subscriptionId = Null
               THEN _setSubscriptionId(st, id) ELSE st
        storedKeys == st1.keys
    IN  [st1 EXCEPT !.keys = [k \in DOMAIN storedKeys |->
                                 IF k = id THEN accessKey ELSE storedKeys[k]]]

(* _storeAccessKey writing a map that holds the new entry only *)
_storeAccessKeyClobber(st, id, accessKey) ==
    LET st1 == IF StartsWith(id, "sub_") THEN _setSubscriptionId(st, id) ELSE st
        storedKeys == st1.keys
    IN  [st1 EXCEPT !.keys = [k \in DOMAIN storedKeys |->
                                 IF k = id THEN accessKey ELSE Null]]

_storeAccessKey(st, id, accessKey) ==
    LET st1 == IF StartsWith(id, "sub_") THEN _setSubscriptionId(st, id) ELSE st
        storedKeys == st1.keys
    IN  [st1 EXCEPT !.keys = [k \in DOMAIN storedKeys |->
                                 IF k = id THEN accessKey ELSE storedKeys[k]]]

(* the default id preferring the session pointer *)
DefaultIdSessionFirst(st) == IF st.sessionId # Null THEN st.sessionId ELSE st.subscriptionId

(* id = this.getSubscriptionId() || this.getSessionId() *)
DefaultId(st) == IF st.subscriptionId # Null THEN st.subscriptionId ELSE st.sessionId

(* getAccessKey preferring the key of the session pointer *)
getAccessKeySessionFirst(st, id) ==
    LET id1 == IF id = Null THEN DefaultId(st) ELSE id
    IN  IF id1 = Null THEN Null
        ELSE IF KeyOf(st.keys, st.sessionId) # Null THEN KeyOf(st.keys, st.sessionId)
        ELSE KeyOf(st.keys, id1)

(* getAccessKey falling back to the key of the subscription pointer too *)
getAccessKeyAnyPointer(st, id) ==
    LET id1 == IF id = Null THEN DefaultId(st) ELSE id
    IN  IF id1 = Null THEN Null
        ELSE IF KeyOf(st.keys, id1) # Null THEN KeyOf(st.keys, id1)
        ELSE IF KeyOf(st.keys, st.sessionId) # Null THEN KeyOf(st.keys, st.sessionId)
        ELSE KeyOf(st.keys, st.subscriptionId)

getAccessKey(st, id) ==
    LET id1 == IF id = Null THEN DefaultId(st) ELSE id
    IN  IF id1 = Null THEN Null
        ELSE IF KeyOf(st.keys, id1) # Null THEN KeyOf(st.keys, id1)
        ELSE KeyOf(st.keys, st.sessionId)

(* the rotated keys merged into the map without the pointer update *)
RECURSIVE StoreNewKeysMapOnly(_, _)
StoreNewKeysMapOnly(st, nk) ==
    IF nk = <<>> THEN st
    ELSE StoreNewKeysMapOnly(
             [st EXCEPT !.keys = [k \in DOMAIN st.keys |->
                                    IF k = Head(nk).id THEN Head(nk).key ELSE st.keys[k]]],
             Tail(nk))

(* Object.entries(new_access_keys).forEach(([subId, newKey]) => ...); the  *)
(* map is given as the sequence of its entries, empty when absent.         *)
RECURSIVE StoreNewKeys(_, _)
StoreNewKeys(st, nk) ==
    IF nk = <<>> THEN st
    ELSE StoreNewKeys(_storeAccessKey(st, Head(nk).id, Head(nk).key), Tail(nk))

-----------------------------------------------------------------------------
(* Refresh scheduler: the operations on the set of task objects *)

(* this.schedules *)
Listed(H) == {s \in H : s.listed}

(* objects only a pending timer or a suspended callback still refers to *)
Live(H) == {s \in H : s.listed \/ s.armed \/ s.inProgress}

Replace(H, t, u) == (H \ {t}) \cup {u}

(* `${subscriptionId}-${date.getTime()}` *)
ScheduleId(sub, at) == sub \o "-" \o ToString(at)

(* setTimeout arming a timer for a zero delay as well (delay < 0) *)
setTimeoutStrict(schedule, nw) ==
    LET delay == schedule.scheduledAt - nw
    IN  [schedule EXCEPT !.armed = ~(delay < 0)]

(* RefreshScheduler.setTimeout: a timer is armed unless the delay is <= 0 *)
setTimeout(schedule, nw) ==
    LET delay == schedule.scheduledAt - nw
    IN  [schedule EXCEPT !.armed = ~(delay <= 0)]

(* scheduleRefresh without the existing-schedule check *)
scheduleRefreshUnchecked(H, sub, at, reason, nw) ==
    LET schedule == [id |-> ScheduleId(sub, at), subscriptionId |-> sub,
                     scheduledAt |-> at, completed |-> FALSE,
                     inProgress |-> FALSE, reason |-> reason,
                     listed |-> TRUE, armed |-> FALSE, gen |-> 0, past |-> at <= nw]
    IN  H \cup {setTimeout(schedule, nw)}

scheduleRefresh(H, sub, at, reason, nw) ==
    LET schedule == [id |-> ScheduleId(sub, at), subscriptionId |-> sub,
                     scheduledAt |-> at, completed |-> FALSE,
                     inProgress |-> FALSE, reason |-> reason,
                     listed |-> TRUE, armed |-> FALSE, gen |-> 0, past |-> at <= nw]
    IN  IF \E s \in Listed(H) : s.id = schedule.id
        THEN H
        ELSE H \cup {setTimeout(schedule, nw)}

(* schedulePurchaseRefreshes comparing with >= instead of > *)
schedulePurchaseRefreshesInclusive(H, purchase, nw) ==
    LET beforeExpiration == purchase.expirationDate - ExpiryMargin
        afterExpiration == purchase.expirationDate + ExpiryMargin
        H1 == IF beforeExpiration >= nw
              THEN scheduleRefresh(H, purchase.purchaseId, beforeExpiration, "pre-expiration", nw)
              ELSE H
    IN  IF afterExpiration >= nw
        THEN scheduleRefresh(H1, purchase.purchaseId, afterExpiration, "post-expiration", nw)
        ELSE H1

schedulePurchaseRefreshes(H, purchase, nw) ==
    LET beforeExpiration == purchase.expirationDate - ExpiryMargin
        afterExpiration == purchase.expirationDate + ExpiryMargin
        H1 == IF beforeExpiration > nw
              THEN scheduleRefresh(H, purchase.purchaseId, beforeExpiration, "pre-expiration", nw)
              ELSE H
    IN  IF afterExpiration > nw
        THEN scheduleRefresh(H1, purchase.purchaseId, afterExpiration, "post-expiration", nw)
        ELSE H1

(* this.schedules = []: the objects stay referenced by their timers and    *)
(* callbacks                                                               *)
RECURSIVE Unlist(_, _)
Unlist(H, todo) ==
    IF todo = {} THEN H
    ELSE LET s == CHOOSE x \in todo : TRUE
             used == {x.gen : x \in {y \in H : ~y.listed /\ y.id = s.id}}
             g == CHOOSE n \in 0..Cardinality(H) : n \notin used /\ \A m \in 0..(n - 1) : m \in used
         IN  Unlist(Replace(H, s, [s EXCEPT !.listed = FALSE, !.gen = g]), todo \ {s})

clearSchedules(H) == Live(Unlist(H, Listed(H)))

(* the check treating a refresh in progress for any subscription as a lock *)
InProgressRefreshAnySubscription(H, schedule) ==
    \E s \in Listed(H) : s.inProgress

(* the check at the head of the timer callback *)
InProgressRefresh(H, schedule) ==
    \E s \in Listed(H) : s.subscriptionId = schedule.subscriptionId /\ s.inProgress

(* the success path removing the completed task from the list *)
TaskSucceededPruned(H, t) ==
    Live(Replace(H, t, [t EXCEPT !.completed = TRUE, !.inProgress = FALSE,
                                 !.listed = FALSE]))

(* the success path without the finally block *)
TaskSucceededStillRunning(H, t) ==
    Live(Replace(H, t, [t EXCEPT !.completed = TRUE]))

(* schedule.completed = true; finally schedule.inProgress = false *)
TaskSucceeded(H, t) ==
    Live(Replace(H, t, [t EXCEPT !.completed = TRUE, !.inProgress = FALSE]))

(* the catch block without the test on the reason: every failure retries *)
TaskFailedAlwaysRetry(H, t, nw) ==
    LET H1 == scheduleRefresh(H, t.subscriptionId, nw + RetryDelay,
                              "retry-" \o t.reason, nw)
    IN  Live(Replace(H1, t, [t EXCEPT !.inProgress = FALSE]))

(* the failure leaving the callback: no catch block, no finally block *)
TaskFailedUncaught(H, t, nw) == H

(* the catch block marking the failed task completed as well *)
TaskFailedCompletes(H, t, nw) ==
    LET H1 == IF ~StartsWith(t.reason, "retry-")
              THEN scheduleRefresh(H, t.subscriptionId, nw + RetryDelay,
                                   "retry-" \o t.reason, nw)
              ELSE H
    IN  Live(Replace(H1, t, [t EXCEPT !.completed = TRUE, !.inProgress = FALSE]))

(* the catch block without the finally block: the failed task stays Running *)
TaskFailedStillRunning(H, t, nw) ==
    IF ~StartsWith(t.reason, "retry-")
    THEN scheduleRefresh(H, t.subscriptionId, nw + RetryDelay, "retry-" \o t.reason, nw)
    ELSE H

(* the catch block retrying a first retry as well *)
TaskFailedRetriesRetry(H, t, nw) ==
    LET H1 == IF ~StartsWith(t.reason, "retry-retry-")
              THEN scheduleRefresh(H, t.subscriptionId, nw + RetryDelay,
                                   "retry-" \o t.reason, nw)
              ELSE H
    IN  Live(Replace(H1, t, [t EXCEPT !.inProgress = FALSE]))

(* catch: one retry unless this was a retry; finally inProgress = false *)
TaskFailed(H, t, nw) ==
    LET H1 == IF ~StartsWith(t.reason, "retry-")
              THEN scheduleRefresh(H, t.subscriptionId, nw + RetryDelay,
                                   "retry-" \o t.reason, nw)
              ELSE H
    IN  Live(Replace(H1, t, [t EXCEPT !.inProgress = FALSE]))

-----------------------------------------------------------------------------
(* Requests and responses *)

Purchases ==
    [purchaseId : {"sub_1"}, expirationDate : Dates]
        \cup {[purchaseId |-> "sub_2", expirationDate |-> 2 * ExpiryMargin]}

(* new_access_keys: absent, or one rotated key *)
NewKeys == {<<>>, <<[id |-> "sub_1", key |-> "k2"]>>}

(* {ok:true, purchases:[...], new_access_keys?}; any other outcome of the   *)
(* request (transport failure, non-ok status, ok:false, no purchases) is   *)
(* the response Failure.                                                   *)
Failure == [ok |-> FALSE, purchases |-> <<>>, newKeys |-> <<>>]

PurchasesResponses ==
    {Failure} \cup [ok : {TRUE}, purchases : {<<>>} \cup {<<p>> : p \in Purchases},
                    newKeys : NewKeys]

(* the lookups of the credential-store specification: one purchase, either *)
(* subscription's key rotated                                               *)
StoreResponses ==
    {Failure} \cup [ok : {TRUE},
                    purchases : {<<>>, <<[purchaseId |-> "sub_1", expirationDate |-> 2 * ExpiryMargin]>>},
                    newKeys : NewKeys \cup {<<[id |-> "sub_2", key |-> "k1"]>>}]

(* the lookups of the refresh chain: a failure, or the purchase sub_1 with *)
(* the one expiration date, its key rotated or not                         *)
ChainResponses ==
    {Failure} \cup [ok : {TRUE},
                    purchases : {<<[purchaseId |-> "sub_1", expirationDate |-> ChainDate]>>},
                    newKeys : NewKeys]

(* the lookups of the two-subscription specification: no purchase, the key *)
(* of the second subscription rotated or not                               *)
PairResponses ==
    {Failure} \cup [ok : {TRUE}, purchases : {<<>>},
                    newKeys : {<<>>, <<[id |-> "sub_2", key |-> "k2"]>>}]

ChangePlanResponses ==
    {Failure} \cup [ok : {TRUE}, purchases : {<<p>> : p \in Purchases}, newKeys : NewKeys]

(* the responses of the credential specification: one purchase, a plan    *)
(* change of it, either subscription's key rotated                         *)
PlanResponses ==
    {Failure} \cup [ok : {TRUE},
                    purchases : {<<[purchaseId |-> "sub_1", expirationDate |-> 2 * ExpiryMargin]>>},
                    newKeys : NewKeys \cup {<<[id |-> "sub_2", key |-> "k1"]>>}]

(* {ok:true, url}; any other outcome of the portal request is ok = FALSE *)
PortalResponses == [ok : BOOLEAN]

(* {ok:true, products}; any other outcome of the prices request (transport *)
(* failure, non-ok status, no ok, no products) has ok = FALSE              *)
CatalogResponses ==
    {[ok |-> FALSE, products |-> Null]} \cup [ok : {TRUE}, products : {"v1", "v2"}]

CheckoutResponses ==
    {[ok |-> FALSE, sessionId |-> Null, accessKey |-> Null]}
        \cup [ok : {TRUE}, sessionId : SessionIds \cup {Null}, accessKey : {"k1", Null}]

Ops == {"getPurchases", "changePlan", "initCheckoutSession",
        "redirectToCustomerPortal", "refreshProducts"}

(* the defaulting taking the session's key whenever there is one *)
ResolveSessionKey(st, id, accessKey) ==
    LET id1 == IF id = Null THEN DefaultId(st) ELSE id
        key1 == IF accessKey # Null THEN accessKey
                ELSE IF KeyOf(st.keys, st.sessionId) # Null THEN KeyOf(st.keys, st.sessionId)
                ELSE getAccessKey(st, id1)
    IN  [id |-> id1, key |-> key1,
         res |-> IF id1 = Null THEN "noId"
                 ELSE IF key1 = Null THEN "missingKey" ELSE "fetch"]

(* the defaulting with the access-key check ahead of the id check *)
ResolveKeyFirst(st, id, accessKey) ==
    LET id1 == IF id = Null THEN DefaultId(st) ELSE id
        key1 == IF accessKey = Null THEN getAccessKey(st, id1) ELSE accessKey
    IN  [id |-> id1, key |-> key1,
         res |-> IF key1 = Null THEN "missingKey"
                 ELSE IF id1 = Null THEN "noId" ELSE "fetch"]

(* the defaulting without the access-key check: the request goes out *)
ResolveNoKeyCheck(st, id, accessKey) ==
    LET id1 == IF id = Null THEN DefaultId(st) ELSE id
        key1 == IF accessKey = Null THEN getAccessKey(st, id1) ELSE accessKey
    IN  [id |-> id1, key |-> key1,
         res |-> IF id1 = Null THEN "noId" ELSE "fetch"]

(* The id / accessKey defaulting shared by getPurchases, changePlan and     *)
(* redirectToCustomerPortal, and the outcome of the checks before fetch:   *)
(* "noId" (getPurchases returns [], the others throw), "missingKey" (the   *)
(* call throws) or "fetch" (the request is issued with id and key).        *)
Resolve(st, id, accessKey) ==
    LET id1 == IF id = Null THEN DefaultId(st) ELSE id
        key1 == IF accessKey = Null THEN getAccessKey(st, id1) ELSE accessKey
    IN  [id |-> id1, key |-> key1,
         res |-> IF id1 = Null THEN "noId"
                 ELSE IF key1 = Null THEN "missingKey" ELSE "fetch"]

(* history record: the operation and its outcome *)
Did(op, res) == [op |-> op, res |-> res]

(* history record of a request issued for id with access key key *)
Sent(op, id, key) == [op |-> op, res |-> "fetch", id |-> id, key |-> key]

(* what the defaulting does under the condition of localStorage: the       *)
(* unguarded getSubscriptionId / getSessionId reads throw when every       *)
(* access is refused, unless both id and accessKey are passed              *)
ResolveStored(st, id, accessKey) ==
    IF storage = "denied" /\ (id = Null \/ accessKey = Null)
    THEN [id |-> id, key |-> accessKey, res |-> "storageError"]
    ELSE Resolve(st, id, accessKey)

(* the store after the _storeAccessKey calls of a response: each call      *)
(* catches the error of a refused write. When every write is refused it    *)
(* stores nothing; when only the write of the credential map is refused    *)
(* ("tight": no room for the larger item) the pointer, written first, is   *)
(* stored and the map is not.                                               *)
Written(st1) ==
    IF storage = "ok" THEN st1
    ELSE IF storage = "tight" THEN [st1 EXCEPT !.keys = Store.keys]
    ELSE Store

(* data.purchases.forEach(purchase => schedulePurchaseRefreshes(purchase)) *)
RECURSIVE ScheduleAll(_, _, _)
ScheduleAll(H, purchases, nw) ==
    IF purchases = <<>> THEN H
    ELSE ScheduleAll(schedulePurchaseRefreshes(H, Head(purchases), nw), Tail(purchases), nw)

(* changePlan's scheduling without the verification refresh *)
ChangePlanScheduleNoVerify(H, purchase, nw) ==
    schedulePurchaseRefreshes(H, purchase, nw)

(* changePlan's scheduling after a success response *)
ChangePlanSchedule(H, purchase, nw) ==
    scheduleRefresh(schedulePurchaseRefreshes(H, purchase, nw),
                    purchase.purchaseId, nw + VerifyDelay, "post-change-verification", nw)

(* the stores of a success response without the access key *)
CheckoutStorePointerOnly(st, resp) ==
    IF resp.sessionId # Null THEN _setSessionId(st, resp.sessionId) ELSE st

(* initCheckoutSession's stores after a success response *)
CheckoutStore(st, resp) ==
    IF resp.sessionId # Null
    THEN LET s == _setSessionId(st, resp.sessionId)
         IN  IF resp.accessKey # Null
             THEN _storeAccessKey(s, resp.sessionId, resp.accessKey)
             ELSE s
    ELSE st

Fits(H) == Cardinality(H) <= MaxTasks

-----------------------------------------------------------------------------
(* State *)

SetStore(st) ==
    /\ accessKeys' = st.keys
    /\ sessionId' = st.sessionId
    /\ subscriptionId' = st.subscriptionId

(* no 'iaptic_products' item *)
NoCache == [products |-> Null, fetchedAt |-> 0]

EmptyStore == [keys |-> [i \in Ids |-> Null], sessionId |-> Null, subscriptionId |-> Null]

Init ==
    /\ now = 0
    /\ accessKeys = EmptyStore.keys
    /\ sessionId = Null
    /\ subscriptionId = Null
    /\ heap = {}
    /\ calls = [o \in Ops |-> 0]
    /\ last = Did("init", "")
    /\ products = NoCache
    /\ storage = "ok"

Tick ==
    /\ now < MaxTicks * ExpiryMargin
    /\ now' = now + ExpiryMargin
    /\ UNCHANGED <<accessKeys, sessionId, subscriptionId, heap, calls, last, products, storage>>

(* The document is loaded again (a reload, or the return from the checkout *)
(* redirect): the constructor runs over the persisted store.               *)
PageLoad ==
    /\ heap # {} \/ calls # [o \in Ops |-> 0]
    /\ heap' = {}
    /\ calls' = [o \in Ops |-> 0]
    /\ last' = Did("load", "")
    /\ UNCHANGED <<now, accessKeys, sessionId, subscriptionId, products, storage>>

(* clearStoredData without the removal of the 'iaptic_products' item *)
clearStoredDataKeepsCatalog ==
    /\ IF storage = "denied"
       THEN /\ last' = Did("clearStoredData", "storageError")
            /\ UNCHANGED <<accessKeys, sessionId, subscriptionId, heap, products>>
       ELSE /\ SetStore(EmptyStore)
            /\ products' = products
            /\ heap' = clearSchedules(heap)
            /\ last' = Did("clearStoredData", "")
    /\ UNCHANGED <<now, calls, storage>>

clearStoredData ==
    /\ IF storage = "denied"
       THEN /\ last' = Did("clearStoredData", "storageError")
            /\ UNCHANGED <<accessKeys, sessionId, subscriptionId, heap, products>>
       ELSE /\ SetStore(EmptyStore)
            /\ products' = NoCache
            /\ heap' = clearSchedules(heap)
            /\ last' = Did("clearStoredData", "")
    /\ UNCHANGED <<now, calls, storage>>

(* an application call that gives way to a Running task of the same id *)
CallUnlessRunning(op, id, accessKey) ==
    LET r == ResolveStored(Store, id, accessKey)
        busy == \E s \in Listed(heap) : s.subscriptionId = r.id /\ s.inProgress
        res == IF r.res = "fetch" /\ busy THEN "skip" ELSE r.res
    IN  /\ res = "fetch" => calls[op] < MaxCalls
        /\ calls' = IF res = "fetch" THEN [calls EXCEPT ![op] = @ + 1] ELSE calls
        /\ last' = IF res = "fetch" THEN Sent(op, r.id, r.key) ELSE Did(op, res)
        /\ UNCHANGED <<now, accessKeys, sessionId, subscriptionId, heap, products, storage>>

(* an application call up to its fetch: getPurchases or changePlan *)
Call(op, id, accessKey) ==
    LET r == ResolveStored(Store, id, accessKey)
    IN  /\ r.res = "fetch" => calls[op] < MaxCalls
        /\ calls' = IF r.res = "fetch" THEN [calls EXCEPT ![op] = @ + 1] ELSE calls
        /\ last' = IF r.res = "fetch" THEN Sent(op, r.id, r.key) ELSE Did(op, r.res)
        /\ UNCHANGED <<now, accessKeys, sessionId, subscriptionId, heap, products, storage>>

getPurchases(id, accessKey) == Call("getPurchases", id, accessKey)

changePlan(id, accessKey) == Call("changePlan", id, accessKey)

redirectToCustomerPortal(id, accessKey) == Call("redirectToCustomerPortal", id, accessKey)

(* initCheckoutSession up to its fetch *)
initCheckoutSession ==
    /\ calls["initCheckoutSession"] < MaxCalls
    /\ calls' = [calls EXCEPT !["initCheckoutSession"] = @ + 1]
    /\ last' = Did("initCheckoutSession", "fetch")
    /\ UNCHANGED <<now, accessKeys, sessionId, subscriptionId, heap, products, storage>>

(* RefreshScheduler.scheduleRefresh called directly *)
ScheduleRefreshCall(sub, at, reason) ==
    LET H1 == scheduleRefresh(heap, sub, at, reason, now)
    IN  /\ Fits(H1)
        /\ heap' = H1
        /\ last' = Did("scheduleRefresh", IF H1 = heap THEN "exists" ELSE "added")
        /\ UNCHANGED <<now, accessKeys, sessionId, subscriptionId, calls, products, storage>>

(* the timer callback looking up the default id instead of the task's *)
TimerFireDefaultId(t) ==
    /\ t \in heap
    /\ t.armed
    /\ t.scheduledAt <= now
    /\ LET t0 == [t EXCEPT !.armed = FALSE]
           t1 == [t0 EXCEPT !.inProgress = TRUE]
           r == ResolveStored(Store, Null, Null)
           res == IF t.completed THEN "completed"
                  ELSE IF InProgressRefresh(heap, t) THEN "skip"
                  ELSE r.res
           H1 == CASE res = "fetch" -> Replace(heap, t, t1)
                   [] res \in {"missingKey", "storageError"} ->
                          TaskFailed(Replace(heap, t, t1), t1, now)
                   [] res = "noId" -> TaskSucceeded(Replace(heap, t, t1), t1)
                   [] OTHER -> Live(Replace(heap, t, t0))
       IN  /\ Fits(H1)
           /\ heap' = H1
           /\ last' = IF res = "fetch" THEN Sent("timer", r.id, r.key) ELSE Did("timer", res)
    /\ UNCHANGED <<now, accessKeys, sessionId, subscriptionId, calls, products, storage>>

(* The timer of task t elapses: the callback up to its first suspension.   *)
(* getPurchases(schedule.subscriptionId) either fetches, and the callback  *)
(* suspends with inProgress set, or ends before any fetch, and the         *)
(* callback runs to its end in the same turn.                              *)
TimerFire(t) ==
    /\ t \in heap
    /\ t.armed
    /\ t.scheduledAt <= now
    /\ LET t0 == [t EXCEPT !.armed = FALSE]
           t1 == [t0 EXCEPT !.inProgress = TRUE]
           r == ResolveStored(Store, t.subscriptionId, Null)
           res == IF t.completed THEN "completed"
                  ELSE IF InProgressRefresh(heap, t) THEN "skip"
                  ELSE r.res
           H1 == CASE res = "fetch" -> Replace(heap, t, t1)
                   [] res \in {"missingKey", "storageError"} ->
                          TaskFailed(Replace(heap, t, t1), t1, now)
                   [] res = "noId" -> TaskSucceeded(Replace(heap, t, t1), t1)
                   [] OTHER -> Live(Replace(heap, t, t0))
       IN  /\ Fits(H1)
           /\ heap' = H1
           /\ last' = IF res = "fetch" THEN Sent("timer", r.id, r.key) ELSE Did("timer", res)
    /\ UNCHANGED <<now, accessKeys, sessionId, subscriptionId, calls, products, storage>>

(* a lookup whose failure discards the stored credentials and pointers *)
PurchasesReturnForgets(resp) ==
    /\ calls["getPurchases"] > 0
    /\ LET H1 == IF resp.ok THEN ScheduleAll(heap, resp.purchases, now) ELSE heap
           st1 == IF resp.ok THEN Written(StoreNewKeys(Store, resp.newKeys)) ELSE EmptyStore
       IN  /\ Fits(H1)
           /\ heap' = H1
           /\ SetStore(st1)
    /\ calls' = [calls EXCEPT !["getPurchases"] = @ - 1]
    /\ last' = Did("purchasesReturn", IF resp.ok THEN "ok" ELSE "fail")
    /\ UNCHANGED <<now, products, storage>>

(* getPurchases from its fetch on, called by the application *)
PurchasesReturn(resp) ==
    /\ calls["getPurchases"] > 0
    /\ LET H1 == IF resp.ok THEN ScheduleAll(heap, resp.purchases, now) ELSE heap
           st1 == IF resp.ok THEN Written(StoreNewKeys(Store, resp.newKeys)) ELSE Store
       IN  /\ Fits(H1)
           /\ heap' = H1
           /\ SetStore(st1)
    /\ calls' = [calls EXCEPT !["getPurchases"] = @ - 1]
    /\ last' = Did("purchasesReturn", IF resp.ok THEN "ok" ELSE "fail")
    /\ UNCHANGED <<now, products, storage>>

(* getPurchases from its fetch on, awaited by the timer callback of t, and *)
(* the rest of that callback                                               *)
TaskReturn(t, resp) ==
    /\ t \in heap
    /\ t.inProgress
    /\ LET H1 == IF resp.ok THEN ScheduleAll(heap, resp.purchases, now) ELSE heap
           st1 == IF resp.ok THEN Written(StoreNewKeys(Store, resp.newKeys)) ELSE Store
           H2 == IF resp.ok THEN TaskSucceeded(H1, t) ELSE TaskFailed(H1, t, now)
       IN  /\ Fits(H2)
           /\ heap' = H2
           /\ SetStore(st1)
    /\ last' = Did("taskReturn", IF resp.ok THEN "ok" ELSE "fail")
    /\ UNCHANGED <<now, calls, products, storage>>

(* changePlan from its fetch on *)
ChangePlanReturn(resp) ==
    /\ calls["changePlan"] > 0
    /\ LET H1 == IF resp.ok THEN ChangePlanSchedule(heap, resp.purchases[1], now) ELSE heap
           st1 == IF resp.ok THEN Written(StoreNewKeys(Store, resp.newKeys)) ELSE Store
       IN  /\ Fits(H1)
           /\ heap' = H1
           /\ SetStore(st1)
    /\ calls' = [calls EXCEPT !["changePlan"] = @ - 1]
    /\ last' = Did("changePlanReturn", IF resp.ok THEN "ok" ELSE "fail")
    /\ UNCHANGED <<now, products, storage>>

(* initCheckoutSession from its fetch on; the redirect itself is PageLoad. *)
(* The unguarded _setSessionId write throws when writes are refused, and   *)
(* the call rethrows it.                                                   *)
CheckoutReturn(resp) ==
    /\ calls["initCheckoutSession"] > 0
    /\ LET refused == resp.ok /\ resp.sessionId # Null /\ storage \in {"full", "denied"}
       IN  /\ SetStore(IF resp.ok /\ ~refused THEN Written(CheckoutStore(Store, resp))
                       ELSE Store)
           /\ last' = Did("checkoutReturn", IF refused THEN "storageError"
                                            ELSE IF resp.ok THEN "ok" ELSE "fail")
    /\ calls' = [calls EXCEPT !["initCheckoutSession"] = @ - 1]
    /\ UNCHANGED <<now, heap, products, storage>>

(* redirectToCustomerPortal from its fetch on: a success leaves the page *)
PortalReturn(resp) ==
    /\ calls["redirectToCustomerPortal"] > 0
    /\ calls' = [calls EXCEPT !["redirectToCustomerPortal"] = @ - 1]
    /\ last' = Did("portalReturn", IF resp.ok THEN "ok" ELSE "fail")
    /\ UNCHANGED <<now, accessKeys, sessionId, subscriptionId, heap, products, storage>>

(* getAccessKey called by the application *)
getAccessKeyCall(id) ==
    /\ last' = IF storage = "denied"
               THEN Did("getAccessKey", "storageError")
               ELSE [op |-> "getAccessKey", res |-> "returned", id |-> id,
                     key |-> getAccessKey(Store, id)]
    /\ UNCHANGED <<now, accessKeys, sessionId, subscriptionId, heap, calls, products, storage>>

(* _getCachedProducts: Utils.storageGet gives null on any error *)
CachedProducts == IF storage = "denied" THEN NoCache ELSE products

(* a freshness check that still serves an entry exactly one window old *)
FreshInclusive(cached, nw) ==
    cached.products # Null /\ cached.fetchedAt >= nw - FreshnessWindow

(* the check at the head of refreshProducts *)
Fresh(cached, nw) == cached.products # Null /\ cached.fetchedAt > nw - FreshnessWindow

(* refreshProducts up to its fetch *)
RefreshStep(op) ==
    IF Fresh(CachedProducts, now)
    THEN /\ last' = [op |-> op, res |-> "cached", products |-> CachedProducts.products]
         /\ UNCHANGED calls
    ELSE /\ calls["refreshProducts"] < MaxFetches
         /\ calls' = [calls EXCEPT !["refreshProducts"] = @ + 1]
         /\ last' = Did(op, "fetch")

refreshProducts ==
    /\ RefreshStep("refreshProducts")
    /\ UNCHANGED <<now, accessKeys, sessionId, subscriptionId, heap, products, storage>>

(* a getter that applies the freshness check of refreshProducts *)
getProductsFreshOnly ==
    /\ RefreshStep("getProducts")
    /\ UNCHANGED <<now, accessKeys, sessionId, subscriptionId, heap, products, storage>>

getProducts ==
    /\ IF CachedProducts.products # Null
       THEN /\ last' = [op |-> "getProducts", res |-> "cached",
                         products |-> CachedProducts.products]
            /\ UNCHANGED calls
       ELSE RefreshStep("getProducts")
    /\ UNCHANGED <<now, accessKeys, sessionId, subscriptionId, heap, products, storage>>

(* _setCachedProducts: Utils.storageSet gives false on any error *)
_setCachedProducts(cache, prods, nw) ==
    IF storage = "ok" THEN [products |-> prods, fetchedAt |-> nw] ELSE cache

(* a fetch whose failure also drops the cached catalog *)
ProductsReturnDropsCache(resp) ==
    /\ calls["refreshProducts"] > 0
    /\ calls' = [calls EXCEPT !["refreshProducts"] = @ - 1]
    /\ products' = IF resp.ok THEN _setCachedProducts(products, resp.products, now)
                   ELSE NoCache
    /\ last' = IF resp.ok
               THEN [op |-> "productsReturn", res |-> "ok", products |-> resp.products]
               ELSE Did("productsReturn", "fail")
    /\ UNCHANGED <<now, accessKeys, sessionId, subscriptionId, heap, storage>>

(* refreshProducts from its fetch on *)
ProductsReturn(resp) ==
    /\ calls["refreshProducts"] > 0
    /\ calls' = [calls EXCEPT !["refreshProducts"] = @ - 1]
    /\ products' = IF resp.ok THEN _setCachedProducts(products, resp.products, now)
                   ELSE products
    /\ last' = IF resp.ok
               THEN [op |-> "productsReturn", res |-> "ok", products |-> resp.products]
               ELSE Did("productsReturn", "fail")
    /\ UNCHANGED <<now, accessKeys, sessionId, subscriptionId, heap, storage>>

(* time passes, half a freshness window at a time *)
Wait ==
    /\ now < MaxWaits * (FreshnessWindow \div 2)
    /\ now' = now + FreshnessWindow \div 2
    /\ UNCHANGED <<accessKeys, sessionId, subscriptionId, heap, calls, last, products, storage>>

(* localStorage starts or stops refusing accesses *)
StorageChange(mode) ==
    /\ mode # storage
    /\ storage' = mode
    /\ UNCHANGED <<now, accessKeys, sessionId, subscriptionId, heap, calls, last, products>>

(* time passes for as long as a timer is pending *)
ChainTick ==
    /\ now < ChainTicks * ExpiryMargin \/ \E t \in heap : t.armed /\ t.scheduledAt > now
    /\ now' = now + ExpiryMargin
    /\ UNCHANGED <<accessKeys, sessionId, subscriptionId, heap, calls, last, products, storage>>

(* the application's one getPurchases call of the refresh chain *)
ChainStart ==
    /\ last.op = "init"
    /\ getPurchases("sub_1", "k1")

(* the timer callback of task t up to its first suspension, in the refresh *)
(* chain                                                                    *)
ChainFire(t) ==
    /\ t \in heap
    /\ t.armed
    /\ t.scheduledAt <= now
    /\ LET t0 == [t EXCEPT !.armed = FALSE]
           t1 == [t0 EXCEPT !.inProgress = TRUE]
           r == ResolveStored(Store, t.subscriptionId, Null)
           res == IF t.completed THEN "completed"
                  ELSE IF InProgressRefresh(heap, t) THEN "skip"
                  ELSE r.res
           H1 == CASE res = "fetch" -> Replace(heap, t, t1)
                   [] res \in {"missingKey", "storageError"} ->
                          TaskFailed(Replace(heap, t, t1), t1, now)
                   [] res = "noId" -> TaskSucceeded(Replace(heap, t, t1), t1)
                   [] OTHER -> Live(Replace(heap, t, t0))
       IN  /\ Cardinality(H1) <= MaxChain
           /\ heap' = H1
           /\ last' = IF res = "fetch" THEN Sent("timer", r.id, r.key) ELSE Did("timer", res)
    /\ UNCHANGED <<now, accessKeys, sessionId, subscriptionId, calls, products, storage>>

(* the lookup awaited by the callback of t returns, in the refresh chain *)
ChainReturn(t, resp) ==
    /\ t \in heap
    /\ t.inProgress
    /\ LET H1 == IF resp.ok THEN ScheduleAll(heap, resp.purchases, now) ELSE heap
           st1 == IF resp.ok THEN Written(StoreNewKeys(Store, resp.newKeys)) ELSE Store
           H2 == IF resp.ok THEN TaskSucceeded(H1, t) ELSE TaskFailed(H1, t, now)
       IN  /\ Cardinality(H2) <= MaxChain
           /\ heap' = H2
           /\ SetStore(st1)
    /\ last' = Did("taskReturn", IF resp.ok THEN "ok" ELSE "fail")
    /\ UNCHANGED <<now, calls, products, storage>>

(* The scheduler under lookups, plan changes and direct scheduling *)
Next ==
    \/ Tick
    \/ \E id \in ArgIds, k \in ArgKeys : getPurchases(id, k)
    \/ \E id \in ArgIds, k \in ArgKeys : changePlan(id, k)
    \/ \E at \in ArgDates : ScheduleRefreshCall("sub_1", at, "post-change-verification")
    \/ \E t \in heap : TimerFire(t)
    \/ \E resp \in PurchasesResponses : PurchasesReturn(resp)
    \/ \E t \in heap, resp \in PurchasesResponses : TaskReturn(t, resp)
    \/ \E resp \in ChangePlanResponses : ChangePlanReturn(resp)

Spec == Init /\ [][Next]_vars

(* The scheduler under lookups and data resets *)
NextReset ==
    \/ Tick
    \/ clearStoredData
    \/ \E id \in ArgIds, k \in ArgKeys : getPurchases(id, k)
    \/ \E t \in heap : TimerFire(t)
    \/ \E resp \in PurchasesResponses : PurchasesReturn(resp)
    \/ \E t \in heap, resp \in PurchasesResponses : TaskReturn(t, resp)

SpecReset == Init /\ [][NextReset]_vars

(* The credential store under checkouts, lookups, resets and page loads *)
NextStore ==
    \/ Tick
    \/ PageLoad
    \/ clearStoredData
    \/ initCheckoutSession
    \/ \E id \in ArgIds, k \in ArgKeys : getPurchases(id, k)
    \/ \E t \in heap : TimerFire(t)
    \/ \E resp \in CheckoutResponses : CheckoutReturn(resp)
    \/ \E resp \in StoreResponses : PurchasesReturn(resp)
    \/ \E t \in heap, resp \in StoreResponses : TaskReturn(t, resp)

SpecStore == Init /\ [][NextStore]_vars

(* The credentials and pointers under every call that reads or writes them *)
NextKeys ==
    \/ PageLoad
    \/ clearStoredData
    \/ initCheckoutSession
    \/ \E id \in ArgIds, k \in ArgKeys : getPurchases(id, k)
    \/ \E id \in ArgIds, k \in ArgKeys : changePlan(id, k)
    \/ \E id \in ArgIds, k \in ArgKeys : redirectToCustomerPortal(id, k)
    \/ \E id \in Ids \cup {Null} : getAccessKeyCall(id)
    \/ \E resp \in CheckoutResponses : CheckoutReturn(resp)
    \/ \E resp \in StoreResponses : PurchasesReturn(resp)
    \/ \E resp \in PlanResponses : ChangePlanReturn(resp)
    \/ \E resp \in PortalResponses : PortalReturn(resp)

SpecKeys == Init /\ [][NextKeys]_vars

(* The catalog cache *)
NextCatalog ==
    \/ Wait
    \/ getProducts
    \/ refreshProducts
    \/ clearStoredData
    \/ \E resp \in CatalogResponses : ProductsReturn(resp)

SpecCatalog == Init /\ [][NextCatalog]_vars

(* The public operations over a localStorage that may refuse accesses *)
NextStorage ==
    \/ \E mode \in {"ok", "full", "denied"} : StorageChange(mode)
    \/ clearStoredData
    \/ getProducts
    \/ initCheckoutSession
    \/ \E id \in ArgIds, k \in ArgKeys : getPurchases(id, k)
    \/ \E id \in ArgIds, k \in ArgKeys : changePlan(id, k)
    \/ \E id \in ArgIds, k \in ArgKeys : redirectToCustomerPortal(id, k)
    \/ \E id \in ArgIds : getAccessKeyCall(id)
    \/ \E resp \in CatalogResponses : ProductsReturn(resp)
    \/ \E resp \in CheckoutResponses : CheckoutReturn(resp)
    \/ \E resp \in StoreResponses : PurchasesReturn(resp)
    \/ \E resp \in PlanResponses : ChangePlanReturn(resp)
    \/ \E resp \in PortalResponses : PortalReturn(resp)

SpecStorage == Init /\ [][NextStorage]_vars

(* The credential store when localStorage runs out of room: the pointer    *)
(* items are still written, the write of the credential map is refused     *)
NextQuota ==
    \/ \E mode \in {"ok", "tight"} : StorageChange(mode)
    \/ initCheckoutSession
    \/ \E id \in ArgIds, k \in ArgKeys : getPurchases(id, k)
    \/ \E resp \in CheckoutResponses : CheckoutReturn(resp)
    \/ \E resp \in StoreResponses : PurchasesReturn(resp)

SpecQuota == Init /\ [][NextQuota]_vars

(* Everything clearStoredData resets: credentials, pointers, catalog, tasks *)
NextData ==
    \/ clearStoredData
    \/ getProducts
    \/ initCheckoutSession
    \/ \E id \in ArgIds, k \in ArgKeys : getPurchases(id, k)
    \/ \E id \in ArgIds : getAccessKeyCall(id)
    \/ \E resp \in CatalogResponses : ProductsReturn(resp)
    \/ \E resp \in CheckoutResponses : CheckoutReturn(resp)
    \/ \E resp \in StoreResponses : PurchasesReturn(resp)

SpecData == Init /\ [][NextData]_vars

(* Tasks of two subscriptions, registered directly, over a checkout session *)
(* whose credential serves both                                             *)
NextSubs ==
    \/ Tick
    \/ initCheckoutSession
    \/ \E resp \in CheckoutResponses : CheckoutReturn(resp)
    \/ \E sub \in SubIds, at \in PairDates :
          ScheduleRefreshCall(sub, at, "post-change-verification")
    \/ \E t \in heap : TimerFire(t)
    \/ \E t \in heap, resp \in PairResponses : TaskReturn(t, resp)

SpecSubs == Init /\ [][NextSubs]_vars

(* The refresh chain of one subscription: one getPurchases call, then the *)
(* timers and lookups of the tasks it leads to                             *)
NextChain ==
    \/ ChainTick
    \/ ChainStart
    \/ \E resp \in ChainResponses : PurchasesReturn(resp)
    \/ \E t \in heap : ChainFire(t)
    \/ \E t \in heap, resp \in ChainResponses : ChainReturn(t, resp)

SpecChain == Init /\ [][NextChain]_vars

(* The refresh chain when time passes, elapsed timers fire and every       *)
(* lookup returns                                                           *)
SpecChainFair ==
    /\ Init
    /\ [][NextChain]_vars
    /\ WF_vars(ChainTick)
    /\ WF_vars(\E resp \in ChainResponses : PurchasesReturn(resp))
    /\ WF_vars(\E t \in heap : ChainFire(t))
    /\ WF_vars(\E t \in heap, resp \in ChainResponses : ChainReturn(t, resp))

(* The same tasks when every lookup a task awaits eventually returns: the  *)
(* fetch awaited by the Running task of a subscription settles, with a     *)
(* response or with an error.                                               *)
SpecSubsFair ==
    /\ Init
    /\ [][NextSubs]_vars
    /\ \A sub \in SubIds :
          WF_vars(\E t \in heap, resp \in PairResponses :
                     t.subscriptionId = sub /\ TaskReturn(t, resp))

-----------------------------------------------------------------------------
(* Vocabulary of the properties *)

(* the scheduler lists a task for subscription sub at instant at *)
Occupied(sub, at) ==
    \E s \in Listed(heap) : s.subscriptionId = sub /\ s.scheduledAt = at

OccupiedAfter(sub, at) ==
    \E s \in Listed(heap') : s.subscriptionId = sub /\ s.scheduledAt = at

(* the tasks of H1 the task list does not hold yet: (subscriptionId,        *)
(* scheduledAt, reason)                                                    *)
AddedIn(H1) ==
    {<<n.subscriptionId, n.scheduledAt, n.reason>> :
        n \in {m \in Listed(H1) : \A o \in Listed(heap) : o.id # m.id}}

(* the tasks a step adds to the task list *)
Added == AddedIn(heap')

(* a step starts no lookup: no task becomes Running, no request is issued *)
NoLookupStarted ==
    /\ {n \in heap' : n.inProgress} \subseteq heap
    /\ \A o \in Ops : calls'[o] <= calls[o]

(* the lookup of task t fails: before the request (no access key) or with   *)
(* the failure response                                                    *)
LookupFails(t) ==
    /\ last'.res \in {"missingKey", "fail"}
    /\ \/ TimerFire(t) /\ last'.res = "missingKey"
       \/ TaskReturn(t, Failure)

(* the refreshes due for a purchase at the current time *)
Due(p) ==
    {d \in {<<p.purchaseId, p.expirationDate - ExpiryMargin, "pre-expiration">>,
            <<p.purchaseId, p.expirationDate + ExpiryMargin, "post-expiration">>} :
        d[2] > now}

(* H1 is the task set with new tasks, none of them Running or completed *)
OnlyRegisters(H1) ==
    /\ heap \subseteq H1
    /\ \A n \in H1 \ heap : n.listed /\ ~n.inProgress /\ ~n.completed

-----------------------------------------------------------------------------
(* Properties *)

(* C1: at most one scheduled refresh task per subscriptionId is Running    *)
(* (inProgress = TRUE) at any moment, data resets included.                *)
C1_MutualExclusion ==
    \A a, b \in heap :
        (a.inProgress /\ b.inProgress /\ a.subscriptionId = b.subscriptionId) => a = b

(* C2: when the timer of task B fires while another task A of the same     *)
(* subscription is Running, B is skipped: it does not become Running, no   *)
(* task is created on its behalf, and it stays with completed = FALSE and  *)
(* inProgress = FALSE.                                                     *)
C2_SkippedWhileRunning ==
    [][\A B \in heap :
         (last'.op = "timer"
            /\ (\E A \in heap \ {B} : A.subscriptionId = B.subscriptionId /\ A.inProgress)
            /\ TimerFire(B))
         => /\ last'.res = "skip"
            /\ heap' = Live(Replace(heap, B, [B EXCEPT !.armed = FALSE]))]_vars

(* C3 as stated: a failing lookup of a non-retry task creates exactly one  *)
(* task (same subscription, reason "retry-" + reason, at failure time +    *)
(* 30 s); a failing lookup of a retry task creates none.                   *)
C3_ExactlyOneRetry ==
    [][\A t \in heap :
         LookupFails(t)
         => Added = IF StartsWith(t.reason, "retry-") THEN {}
                    ELSE {<<t.subscriptionId, now + 30000, "retry-" \o t.reason>>}]_vars

(* C3 amended: a failing lookup of a non-retry task creates that one retry *)
(* task unless the scheduler already lists a task of the subscription at   *)
(* failure time + 30 s, in which case it creates none; a failing lookup of *)
(* a retry task creates none; so no task is ever a retry of a retry.       *)
C3_RetryUnlessOccupied ==
    [][/\ \A t \in heap :
            LookupFails(t)
            => Added = IF StartsWith(t.reason, "retry-")
                          \/ Occupied(t.subscriptionId, now + 30000)
                       THEN {}
                       ELSE {<<t.subscriptionId, now + 30000, "retry-" \o t.reason>>}
       /\ \A n \in heap' : ~StartsWith(n.reason, "retry-retry-")]_vars

(* C3 witness: a retry task whose own lookup has failed *)
C3_RetryFailed ==
    /\ last.op \in {"timer", "taskReturn"}
    /\ last.res \in {"missingKey", "fail"}
    /\ \E r \in Listed(heap) :
          /\ StartsWith(r.reason, "retry-")
          /\ ~r.armed /\ ~r.inProgress /\ ~r.completed
          /\ \A o \in heap \ {r} : o.completed \/ StartsWith(r.reason, "retry-" \o o.reason)

(* C4: after a full reset no task scheduled before it, whose timer had not *)
(* fired yet, becomes Running, issues a lookup or causes a retry task: the *)
(* firing of such a timer does nothing.                                    *)
C4_ResetStopsPending ==
    [][\A t \in heap :
         (last'.op = "timer" /\ ~t.listed /\ t.armed /\ TimerFire(t))
         => /\ last'.res \notin {"fetch", "missingKey", "noId"}
            /\ Added = {}
            /\ NoLookupStarted]_vars

(* C5: the task list holds at most one task per (subscriptionId,           *)
(* scheduledAt) pair in every reachable state, and scheduleRefresh called  *)
(* for a pair that is listed, with whatever reason, changes no task and    *)
(* arms no timer.                                                          *)
C5_Idempotent ==
    /\ [](\A a, b \in Listed(heap) :
            (a.subscriptionId = b.subscriptionId /\ a.scheduledAt = b.scheduledAt) => a = b)
    /\ [][\A at \in ArgDates :
            (last'.op = "scheduleRefresh" /\ Occupied("sub_1", at)
               /\ ScheduleRefreshCall("sub_1", at, "post-change-verification"))
            => heap' = heap]_vars

(* C5 witness: scheduleRefresh was called for a pair listed with another reason *)
C5_SecondCall ==
    /\ last = Did("scheduleRefresh", "exists")
    /\ \A s \in Listed(heap) : s.reason # "post-change-verification"
    /\ Listed(heap) # {}

(* C6 as stated: in every reachable state, schedulePurchaseRefreshes for  *)
(* a purchase expiring at T registers a "pre-expiration" task at T - 10 s  *)
(* iff T - 10 s > now, a "post-expiration" task at T + 10 s iff            *)
(* T + 10 s > now, nothing else, and starts no lookup.                     *)
C6_RegistersDue ==
    \A p \in Purchases :
        LET H1 == schedulePurchaseRefreshes(heap, p, now)
        IN  AddedIn(H1) = Due(p) /\ OnlyRegisters(H1)

(* C6 amended: each of the two tasks is registered iff its instant is      *)
(* > now and the scheduler lists no task of that purchase at that instant  *)
(* yet; nothing else is registered and no lookup is started.               *)
C6_RegistersDueUnlessOccupied ==
    \A p \in Purchases :
        LET H1 == schedulePurchaseRefreshes(heap, p, now)
        IN  /\ AddedIn(H1) = {d \in Due(p) : ~Occupied(d[1], d[2])}
            /\ OnlyRegisters(H1)

(* C6 witness: a purchase expiring now got its "post-expiration" task only *)
C6_PostOnly ==
    /\ last = Did("purchasesReturn", "ok")
    /\ \E s \in Listed(heap) :
          /\ s.reason = "post-expiration"
          /\ s.scheduledAt = now + ExpiryMargin
          /\ s.armed
          /\ \A o \in Listed(heap) : o.subscriptionId = s.subscriptionId => o = s

(* C7: a task registered with scheduledAt <= now never has a timer, never  *)
(* runs (so it issues no lookup and causes no retry) and no lookup ever    *)
(* returns to it.                                                          *)
C7_PastNeverRuns ==
    /\ [](\A t \in heap : t.past => ~t.armed /\ ~t.inProgress /\ ~t.completed)
    /\ [][\A t \in heap :
            t.past => /\ ~TimerFire(t)
                      /\ \A resp \in PurchasesResponses : ~TaskReturn(t, resp)]_vars

(* C7 witness: a task registered in the past, still listed when the clock  *)
(* has run out                                                             *)
C7_PastTaskKept ==
    /\ now = MaxTicks * ExpiryMargin
    /\ \E t \in Listed(heap) : t.past /\ t.scheduledAt < now

(* C8 as stated: a successful changePlan whose purchase expires at T with  *)
(* T - 10 s > now adds the three tasks "pre-expiration" at T - 10 s,       *)
(* "post-expiration" at T + 10 s and "post-change-verification" at         *)
(* now + 10 s.                                                             *)
C8_AddsThree ==
    [][\A resp \in IF last'.op = "changePlanReturn" THEN ChangePlanResponses ELSE {} :
         (resp.ok /\ ChangePlanReturn(resp)
            /\ resp.purchases[1].expirationDate - ExpiryMargin > now)
         => LET p == resp.purchases[1]
            IN  {<<p.purchaseId, p.expirationDate - 10000, "pre-expiration">>,
                 <<p.purchaseId, p.expirationDate + 10000, "post-expiration">>,
                 <<p.purchaseId, now + 10000, "post-change-verification">>}
                    \subseteq Added]_vars

(* C8 amended: after such a changePlan the scheduler lists a task of the   *)
(* purchase at each of T - 10 s, T + 10 s and now + 10 s; the tasks it     *)
(* adds are "pre-expiration" and "post-expiration" where no task of the    *)
(* purchase was listed at that instant, and "post-change-verification"     *)
(* where none was listed at now + 10 s and now + 10 s is not T - 10 s.     *)
C8_CoversThreeInstants ==
    [][\A resp \in IF last'.op = "changePlanReturn" THEN ChangePlanResponses ELSE {} :
         (resp.ok /\ ChangePlanReturn(resp)
            /\ resp.purchases[1].expirationDate - ExpiryMargin > now)
         => LET p == resp.purchases[1]
                pre == <<p.purchaseId, p.expirationDate - 10000, "pre-expiration">>
                post == <<p.purchaseId, p.expirationDate + 10000, "post-expiration">>
                verify == <<p.purchaseId, now + 10000, "post-change-verification">>
            IN  /\ \A d \in {pre, post, verify} : OccupiedAfter(d[1], d[2])
                /\ Added = {d \in {pre, post} : ~Occupied(d[1], d[2])}
                             \cup {d \in {verify} : ~Occupied(d[1], d[2]) /\ d[2] # pre[2]}]_vars

(* C8 witness: a changePlan has just added its three tasks *)
C8_ThreeAdded ==
    /\ last = Did("changePlanReturn", "ok")
    /\ \E a, b, c \in Listed(heap) :
          /\ a.subscriptionId = b.subscriptionId /\ b.subscriptionId = c.subscriptionId
          /\ a.reason = "pre-expiration" /\ a.scheduledAt > now
          /\ b.reason = "post-expiration" /\ b.scheduledAt = a.scheduledAt + 2 * ExpiryMargin
          /\ c.reason = "post-change-verification" /\ c.scheduledAt = now + VerifyDelay

C10_MissingAccessKey ==
    [][\A id \in ArgIds :
         LET id1 == IF id # Null THEN id
                    ELSE IF subscriptionId # Null THEN subscriptionId ELSE sessionId
         IN  (last'.op = "getPurchases" /\ id1 # Null /\ KeyOf(accessKeys, id1) = Null
                /\ KeyOf(accessKeys, sessionId) = Null /\ getPurchases(id, Null))
             => /\ last' = Did("getPurchases", "missingKey")
                /\ UNCHANGED <<accessKeys, sessionId, subscriptionId, heap, calls>>]_vars

(* C10 witness: the error was thrown while a key of another id is stored *)
C10_KeyOfAnotherId ==
    /\ last = Did("getPurchases", "missingKey")
    /\ \E i \in Ids : accessKeys[i] # Null

(* the token the store holds under id, Null when none (or no id) *)
TokenOf(id) == IF id \in Ids THEN accessKeys[id] ELSE Null

(* the id a call without id argument is about *)
PointerId == IF subscriptionId # Null THEN subscriptionId ELSE sessionId

(* C11: getAccessKey(id) returns the token stored under id when there is   *)
(* one, otherwise the token stored under the session pointer, otherwise    *)
(* null; with id omitted, id is the subscription pointer if set, else the  *)
(* session pointer, and the result is null when neither is set.            *)
C11_TokenElseSessionToken ==
    [][\A id \in Ids \cup {Null} :
         (last'.op = "getAccessKey" /\ storage = "ok" /\ getAccessKeyCall(id))
         => LET id1 == IF id # Null THEN id ELSE PointerId
            IN  last'.key = IF id1 = Null THEN Null
                            ELSE IF TokenOf(id1) # Null THEN TokenOf(id1)
                            ELSE TokenOf(sessionId)]_vars

(* C11 witness: getAccessKey returned the subscription's own token while   *)
(* the session's token is another one                                      *)
C11_OwnTokenPreferred ==
    /\ last.op = "getAccessKey" /\ last.res = "returned"
    /\ last.id \in SubIds
    /\ last.key = accessKeys[last.id]
    /\ TokenOf(sessionId) \notin {Null, last.key}

C13_PrefixSetsPointer ==
    /\ [](\A id \in Ids, key \in {"k1", "k2"} :
            LET st1 == _storeAccessKey(Store, id, key)
            IN  /\ st1.subscriptionId = IF SubSeq(id, 1, 4) = "sub_" THEN id ELSE subscriptionId
                /\ st1.keys[id] = key)
    /\ [][/\ \A resp \in IF last'.op = "checkoutReturn" THEN CheckoutResponses ELSE {} :
               CheckoutReturn(resp) => subscriptionId' = subscriptionId
          /\ \A resp \in IF last'.op = "purchasesReturn" THEN StoreResponses ELSE {} :
               (resp.ok /\ resp.newKeys # <<>> /\ PurchasesReturn(resp))
               => subscriptionId' = resp.newKeys[1].id
          /\ \A resp \in IF last'.op = "changePlanReturn" THEN PlanResponses ELSE {} :
               (resp.ok /\ resp.newKeys # <<>> /\ ChangePlanReturn(resp))
               => subscriptionId' = resp.newKeys[1].id]_vars

(* C13 witness: a lookup stored a key for another subscription and the     *)
(* pointer moved to it                                                     *)
C13_PointerMovedByLookup ==
    /\ last = Did("purchasesReturn", "ok")
    /\ subscriptionId = "sub_2"
    /\ accessKeys["sub_1"] # Null
    /\ sessionId # Null

(* C14 as stated: once the subscription pointer is set, only               *)
(* clearStoredData changes it.                                             *)
C14_PointerKeptUntilReset ==
    [][(subscriptionId # Null /\ subscriptionId' # subscriptionId) => clearStoredData]_vars

(* C14 amended: the subscription pointer changes only by clearStoredData,  *)
(* which removes it, or by a lookup or plan change response that carries   *)
(* a rotated key, which sets it to the (last) subscription id of that      *)
(* response whatever it held.                                              *)
C14_PointerFollowsRotatedKey ==
    [][subscriptionId' # subscriptionId
       => \/ clearStoredData /\ subscriptionId' = Null
          \/ \E resp \in StoreResponses :
                /\ resp.ok /\ resp.newKeys # <<>>
                /\ subscriptionId' = resp.newKeys[Len(resp.newKeys)].id
                /\ PurchasesReturn(resp)
          \/ \E resp \in PlanResponses :
                /\ resp.ok /\ resp.newKeys # <<>>
                /\ subscriptionId' = resp.newKeys[Len(resp.newKeys)].id
                /\ ChangePlanReturn(resp)]_vars

(* C14 witness: a plan change returned a rotated key for another           *)
(* subscription and the pointer moved to it                                *)
C14_PointerMovedByPlanChange ==
    /\ last = Did("changePlanReturn", "ok")
    /\ subscriptionId = "sub_2"
    /\ accessKeys["sub_1"] # Null

-----------------------------------------------------------------------------
(* The catalog cache *)

(* the answer of a catalog call served from the cache *)
ServedFromCache(op) == [op |-> op, res |-> "cached", products |-> products.products]

(* the age of the cached catalog *)
Age == now - products.fetchedAt

(* C16 as stated: getProducts fetches from a cold cache, serves an entry
   younger than 60 s without a fetch, and fetches again when the entry is
   older than 60 s *)
C16_StaleEntryNotServed ==
    [][getProducts /\ storage = "ok" =>
         /\ products.products = Null => last' = Did("getProducts", "fetch")
         /\ products.products # Null /\ Age < FreshnessWindow =>
                last' = ServedFromCache("getProducts") /\ calls' = calls
         /\ products.products # Null /\ Age > FreshnessWindow =>
                last' = Did("getProducts", "fetch")]_vars

(* C16: getProducts issues a catalog fetch exactly when no catalog is cached;
   a cached catalog is served without a fetch whatever its age *)
C16_CachedEntryServedAtAnyAge ==
    [][getProducts /\ storage = "ok" =>
         IF products.products = Null
         THEN /\ last' = Did("getProducts", "fetch")
              /\ calls' = [calls EXCEPT !["refreshProducts"] = @ + 1]
         ELSE /\ last' = ServedFromCache("getProducts")
              /\ calls' = calls /\ products' = products]_vars

(* getProducts has served a catalog older than the freshness window *)
C16_StaleEntryServed ==
    /\ last = ServedFromCache("getProducts")
    /\ products.products # Null
    /\ Age > FreshnessWindow

(* C17: refreshProducts serves a cached catalog younger than 60 s without a
   fetch and leaves it as it is; with no catalog or one of 60 s or more it
   issues a fetch, and a successful fetch stores the products with
   fetchedAt = now *)
C17_RefreshRateLimited ==
    [][/\ refreshProducts /\ storage = "ok" =>
            IF products.products # Null /\ Age < FreshnessWindow
            THEN /\ last' = ServedFromCache("refreshProducts")
                 /\ calls' = calls /\ products' = products
            ELSE /\ last' = Did("refreshProducts", "fetch")
                 /\ calls' = [calls EXCEPT !["refreshProducts"] = @ + 1]
       /\ \A resp \in IF last'.op = "productsReturn" THEN CatalogResponses ELSE {} :
            ProductsReturn(resp) /\ resp.ok /\ storage = "ok" =>
                products' = [products |-> resp.products, fetchedAt |-> now]]_vars

(* refreshProducts has issued a fetch over a catalog exactly one window old *)
C17_RefetchedAtWindow ==
    /\ last = Did("refreshProducts", "fetch")
    /\ products.products # Null
    /\ Age = FreshnessWindow

(* C18: a failed catalog fetch fails the call, writes nothing, and leaves the
   cached catalog and its fetchedAt as they were, so that a getProducts right
   after it still serves that catalog *)
C18_FailureKeepsCache ==
    [][/\ \A resp \in IF last'.op = "productsReturn" THEN CatalogResponses ELSE {} :
            ProductsReturn(resp) /\ ~resp.ok =>
                products' = products /\ last' = Did("productsReturn", "fail")
       /\ getProducts /\ last = Did("productsReturn", "fail")
             /\ products.products # Null /\ storage = "ok" =>
                last' = ServedFromCache("getProducts") /\ calls' = calls]_vars

(* a fetch has failed over a cached catalog *)
C18_FailedOverCache ==
    /\ last = Did("productsReturn", "fail")
    /\ products.products # Null
    /\ Age >= FreshnessWindow

-----------------------------------------------------------------------------
(* The persistent store refusing accesses *)

(* C19: a failure of the persistent store never makes a public operation
   fail: no call of getProducts, initCheckoutSession, getPurchases,
   changePlan, redirectToCustomerPortal, getAccessKey or clearStoredData ends
   by raising the storage error *)
C19_StorageErrorNeverRaised == last.res # "storageError"

-----------------------------------------------------------------------------
(* Failures inside the timer callback *)

-----------------------------------------------------------------------------
(* Data reset *)

-----------------------------------------------------------------------------
(* Credentials are merged, never clobbered *)

(* the entries of a new_access_keys map *)
Entries(nk) == {nk[j] : j \in 1..Len(nk)}

(* C22: the entry of an id changes only by a reset or by a response that    *)
(* stores a credential under that very id, to the credential of that       *)
(* response; every other entry is preserved, whatever other calls are in   *)
(* flight.                                                                  *)
C22_OnlyOwnEntryChanges ==
    [][\A i \in {j \in Ids : accessKeys'[j] # accessKeys[j]} :
         \/ clearStoredData
         \/ \E resp \in StoreResponses :
               /\ PurchasesReturn(resp) /\ resp.ok
               /\ [id |-> i, key |-> accessKeys'[i]] \in Entries(resp.newKeys)
         \/ \E resp \in PlanResponses :
               /\ ChangePlanReturn(resp) /\ resp.ok
               /\ [id |-> i, key |-> accessKeys'[i]] \in Entries(resp.newKeys)
         \/ \E resp \in CheckoutResponses :
               /\ CheckoutReturn(resp) /\ resp.ok
               /\ resp.sessionId = i /\ resp.accessKey = accessKeys'[i]]_vars

(* C22 witness: a plan change has stored a credential while a lookup and a *)
(* checkout are in flight, and the credentials of the three ids are held   *)
C22_ThreeCredentialsHeld ==
    /\ last = Did("changePlanReturn", "ok")
    /\ calls["getPurchases"] > 0 /\ calls["initCheckoutSession"] > 0
    /\ \A i \in Ids : accessKeys[i] # Null

-----------------------------------------------------------------------------
(* Plan change and customer portal before their request *)

(* C23: changePlan and redirectToCustomerPortal resolve id and access key   *)
(* as getPurchases does: the request they issue carries the id and key a    *)
(* getPurchases with the same arguments would send; with no id resolved,   *)
(* or an id and no credential, they fail before any request and change     *)
(* neither the store nor the tasks (success of the portal request alone    *)
(* navigates).                                                              *)
C23_SameResolutionOrFailure ==
    [][\A id \in ArgIds, k \in ArgKeys :
         \A op \in {"changePlan", "redirectToCustomerPortal"} :
            (last'.op = op /\ Call(op, id, k))
            => LET id1 == IF id # Null THEN id ELSE PointerId
                   key1 == IF k # Null THEN k
                           ELSE IF TokenOf(id1) # Null THEN TokenOf(id1)
                           ELSE TokenOf(sessionId)
               IN  /\ \E r \in {"noId", "missingKey", "fetch"} :
                        /\ last'.res = r
                        /\ r = "fetch" => last'.id = id1 /\ last'.key = key1
                        /\ r = "noId" <=> id1 = Null
                        /\ r = "missingKey" <=> id1 # Null /\ key1 = Null
                   /\ last'.res # "fetch" =>
                        UNCHANGED <<accessKeys, sessionId, subscriptionId, heap, calls>>]_vars

(* C23 witness: a plan change has failed for want of a credential while a  *)
(* credential of another id is stored                                      *)
C23_PlanChangeRefused ==
    /\ last = Did("changePlan", "missingKey")
    /\ \E i \in Ids : accessKeys[i] # Null

-----------------------------------------------------------------------------
(* Checkout *)

(* C24: initCheckoutSession navigates only on a success response, and by    *)
(* then a returned sessionId is the session pointer and a returned         *)
(* accessKey is stored under that sessionId; on a failure it raises an     *)
(* error, does not navigate and leaves the session pointer and the         *)
(* credential map as they were.                                             *)
C24_StoredBeforeNavigation ==
    [][\A resp \in IF last'.op = "checkoutReturn" THEN CheckoutResponses ELSE {} :
         CheckoutReturn(resp)
         => IF resp.ok
            THEN /\ last' = Did("checkoutReturn", "ok")
                 /\ resp.sessionId # Null =>
                       /\ sessionId' = resp.sessionId
                       /\ resp.accessKey # Null =>
                             accessKeys'[resp.sessionId] = resp.accessKey
                 /\ resp.sessionId = Null => UNCHANGED <<accessKeys, sessionId>>
                 /\ \A i \in Ids \ {resp.sessionId} : accessKeys'[i] = accessKeys[i]
                 /\ subscriptionId' = subscriptionId
            ELSE /\ last' = Did("checkoutReturn", "fail")
                 /\ UNCHANGED <<accessKeys, sessionId, subscriptionId>>]_vars

(* C24 witness: the checkout has navigated with the session and its        *)
(* credential stored beside a subscription's credential                    *)
C24_NavigatedWithSession ==
    /\ last = Did("checkoutReturn", "ok")
    /\ sessionId = "cs_1" /\ accessKeys["cs_1"] = "k1"
    /\ subscriptionId # Null /\ accessKeys[subscriptionId] # Null

-----------------------------------------------------------------------------
(* Task lifecycle *)

(* C25 as stated: when the lookup of a task fails, the failed task ends     *)
(* with completed = TRUE and inProgress = FALSE, with or without a retry.   *)
C25_FailedTaskCompleted ==
    [][\A t \in heap :
         LookupFails(t)
         => \E s \in heap' : s.id = t.id /\ s.completed /\ ~s.inProgress]_vars

(* C25 amended: the failed task ends with completed = FALSE and             *)
(* inProgress = FALSE, with or without a retry; it stays in the list and   *)
(* has no timer left, so it does not run again.                             *)
C25_FailedTaskNotCompleted ==
    [][\A t \in heap :
         LookupFails(t)
         => \E s \in Listed(heap') :
               /\ s.id = t.id
               /\ ~s.completed /\ ~s.inProgress /\ ~s.armed]_vars

(* C25 witness: a task whose lookup failed for want of a credential, left  *)
(* not completed beside its retry                                          *)
C25_FailedBesideRetry ==
    /\ last = Did("timer", "missingKey")
    /\ \E t, r \in Listed(heap) :
          /\ ~StartsWith(t.reason, "retry-")
          /\ ~t.past /\ t.scheduledAt <= now
          /\ ~t.completed /\ ~t.inProgress /\ ~t.armed
          /\ r.reason = "retry-" \o t.reason
          /\ r.subscriptionId = t.subscriptionId

(* C26: completed and inProgress are never TRUE together; a completed task *)
(* stays completed and is never Running again; and a task becomes          *)
(* completed only in the step in which its own lookup returns.             *)
C26_Lifecycle ==
    /\ [](\A t \in heap : ~(t.completed /\ t.inProgress))
    /\ [][/\ \A t \in heap :
               t.completed => \E s \in heap' : s.id = t.id /\ s.completed /\ ~s.inProgress
          /\ \A s \in heap' :
               (s.completed /\ \A t \in heap : t.id = s.id => ~t.completed)
               => /\ last' = Did("taskReturn", "ok")
                  /\ \E t \in heap : t.id = s.id /\ t.inProgress]_vars

(* C26 witness: a completed task beside a later task of its subscription   *)
(* that is Running                                                          *)
C26_CompletedBesideRunning ==
    \E t, u \in Listed(heap) :
        /\ t.completed /\ ~t.inProgress /\ ~t.armed
        /\ u.subscriptionId = t.subscriptionId
        /\ u.inProgress /\ u.scheduledAt > t.scheduledAt

(* C27: a task becomes Running at most once, only by the firing of its own *)
(* timer, which it has once and never again; and the step in which it      *)
(* becomes Running issues one lookup, for the subscriptionId of the task   *)
(* with the credential resolved for that id, whatever the stored pointers. *)
C27_RunsOnceForOwnId ==
    /\ [](\A t \in heap : t.inProgress => ~t.armed)
    /\ [][/\ \A t \in heap : \A s \in heap' :
               (~t.armed /\ s.id = t.id) => ~s.armed /\ (s.inProgress => t.inProgress)
          /\ \A s \in heap' :
               (s.inProgress /\ \A t \in heap : t.id = s.id => ~t.inProgress)
               => last' = Sent("timer", s.subscriptionId,
                               IF TokenOf(s.subscriptionId) # Null
                               THEN TokenOf(s.subscriptionId) ELSE TokenOf(sessionId))]_vars

(* C27 witness: a task of sub_1 has become Running with its lookup issued  *)
(* for sub_1 while the subscription pointer is sub_2                       *)
C27_OwnIdNotPointer ==
    /\ last.op = "timer" /\ last.res = "fetch" /\ last.id = "sub_1"
    /\ subscriptionId = "sub_2"
    /\ \E t \in Listed(heap) : t.subscriptionId = "sub_1" /\ t.inProgress

(* C28: while the lookup of a Running task has not returned, the task       *)
(* stays Running, and the firing of the timer of any other task of its     *)
(* subscription is skipped: no further lookup is issued for that           *)
(* subscription by the scheduler.                                           *)
C28_HungLookupBlocksSubscription ==
    [][\A A \in {t \in heap : t.inProgress} :
         last'.op # "taskReturn"
         => /\ \E A1 \in heap' : A1.id = A.id /\ A1.inProgress
            /\ \A B \in heap \ {A} :
                  (last'.op = "timer" /\ B.subscriptionId = A.subscriptionId /\ TimerFire(B))
                  => last'.res \in {"skip", "completed"}]_vars

(* C29: the exclusion is per subscription: a task whose timer fires is     *)
(* skipped only if a task of its own subscription is Running; with Running *)
(* tasks of other subscriptions only, it runs its own lookup.              *)
C29_ExclusionPerSubscription ==
    [][\A B \in IF last'.op = "timer" THEN heap ELSE {} :
         TimerFire(B)
         => /\ last'.res = "skip" =>
                  \E A \in heap \ {B} : A.subscriptionId = B.subscriptionId /\ A.inProgress
            /\ ((\E A \in heap : A.subscriptionId # B.subscriptionId /\ A.inProgress)
                  /\ ~B.completed
                  /\ \A A \in heap : A.subscriptionId = B.subscriptionId => ~A.inProgress)
               => /\ last'.res \in {"fetch", "missingKey"}
                  /\ last'.res = "fetch" =>
                        \E B1 \in heap' : B1.id = B.id /\ B1.inProgress]_vars

(* C29 witness: a task of sub_1 and a task of sub_2 are Running together,  *)
(* the second started while the first was Running                          *)
C29_TwoSubscriptionsRunning ==
    /\ last.op = "timer" /\ last.res = "fetch"
    /\ \E a, b \in Listed(heap) :
          /\ a.subscriptionId = "sub_1" /\ a.inProgress
          /\ b.subscriptionId = "sub_2" /\ b.inProgress

(* C30: every step other than a reset keeps every task of the list in the   *)
(* list, with its subscription, instant and reason: completed, failed and  *)
(* skipped tasks stay listed.                                               *)
C30_ListOnlyGrows ==
    [][\/ clearStoredData
       \/ \A s \in Listed(heap) :
            \E s1 \in Listed(heap') :
               /\ s1.id = s.id
               /\ s1.subscriptionId = s.subscriptionId
               /\ s1.scheduledAt = s.scheduledAt
               /\ s1.reason = s.reason]_vars

(* C30 witness: the list holds a completed task and a task that was        *)
(* skipped while the first was Running                                      *)
C30_CompletedAndSkippedListed ==
    /\ last = Did("taskReturn", "ok")
    /\ \E a, b \in Listed(heap) :
          /\ a.completed
          /\ b.subscriptionId = a.subscriptionId /\ b.scheduledAt > a.scheduledAt
          /\ ~b.completed /\ ~b.armed /\ ~b.inProgress /\ ~b.past
          /\ \A r \in heap : ~StartsWith(r.reason, "retry-")

-----------------------------------------------------------------------------
(* The application's calls beside the scheduler *)

(* C31: the outcome of a getPurchases or changePlan call of the            *)
(* application depends on its arguments and the store only, never on the   *)
(* tasks: with an id and a key resolved the request goes out, whether or   *)
(* not a task of that subscription is Running; and neither the call nor    *)
(* its response makes any task Running: a response only registers tasks.   *)
C31_CallsIgnoreRunningTasks ==
    [][/\ \A op \in {"getPurchases", "changePlan"} \cap {last'.op} :
          \A id \in ArgIds, k \in ArgKeys :
            Call(op, id, k)
            => LET id1 == IF id # Null THEN id ELSE PointerId
                   key1 == IF k # Null THEN k
                           ELSE IF TokenOf(id1) # Null THEN TokenOf(id1)
                           ELSE TokenOf(sessionId)
               IN  /\ heap' = heap
                   /\ (id1 # Null /\ key1 # Null) => last' = Sent(op, id1, key1)
       /\ last'.op \in {"getPurchases", "changePlan", "purchasesReturn", "changePlanReturn"}
            => OnlyRegisters(heap')]_vars

(* C31 witness: the application's lookup for sub_1 has gone out while a    *)
(* task of sub_1 is Running                                                 *)
C31_CallBesideRunningTask ==
    /\ last.op = "getPurchases" /\ last.res = "fetch" /\ last.id = "sub_1"
    /\ \E t \in Listed(heap) : t.subscriptionId = "sub_1" /\ t.inProgress

-----------------------------------------------------------------------------
(* Overlapping catalog calls *)

(* C32: catalog requests are limited to one fetch per 60 s window also     *)
(* when calls overlap: a getProducts or refreshProducts call that starts   *)
(* while a catalog fetch issued less than 60 s ago is in flight issues no  *)
(* fetch of its own.                                                        *)
C32_OneFetchPerWindow ==
    [][(getProducts \/ refreshProducts)
         /\ calls["refreshProducts"] > 0 /\ now < FreshnessWindow
       => calls' = calls]_vars

-----------------------------------------------------------------------------
(* Release of the per-subscription lock *)

(* a task of subscription sub is Running *)
Running(sub) == \E t \in heap : t.subscriptionId = sub /\ t.inProgress

(* C33: when the lookup of a Running task returns, with a response or with *)
(* a failure, the task is not Running after that step; a task whose timer  *)
(* elapses while no task of its subscription is Running is not skipped;    *)
(* and when every lookup eventually returns, a subscription with a Running *)
(* task eventually has none.                                                *)
C33_LockReleased ==
    /\ [][/\ \A t \in IF last'.op = "taskReturn" THEN {s \in heap : s.inProgress} ELSE {} :
               (\E resp \in PairResponses : TaskReturn(t, resp))
               => /\ \A s \in heap' : s.id = t.id /\ s.gen = t.gen => ~s.inProgress
                  /\ ~\E s \in heap' : s.subscriptionId = t.subscriptionId /\ s.inProgress
          /\ \A B \in IF last'.op = "timer" THEN heap ELSE {} :
               (TimerFire(B) /\ ~B.completed /\ ~Running(B.subscriptionId))
               => last'.res # "skip"]_vars
    /\ \A sub \in SubIds : Running(sub) ~> ~Running(sub)

(* C33 witness: a task of sub_1 failed and is no longer Running, and a     *)
(* later task of sub_1 has started its lookup                               *)
C33_LaterTaskRanAfterFailure ==
    /\ last.op = "timer" /\ last.res = "fetch"
    /\ \E a, b \in Listed(heap) :
          /\ a.subscriptionId = "sub_1" /\ b.subscriptionId = "sub_1"
          /\ ~a.armed /\ ~a.completed /\ ~a.inProgress /\ a.scheduledAt < b.scheduledAt
          /\ \E r \in Listed(heap) : r.reason = "retry-" \o a.reason /\ r.subscriptionId = "sub_1"
          /\ b.inProgress

-----------------------------------------------------------------------------
(* Termination of the refresh chain *)

ChainReasons == {"pre-expiration", "post-expiration",
                 "retry-pre-expiration", "retry-post-expiration"}

(* no timer is pending and no lookup is awaited *)
ChainQuiet == \A t \in heap : ~t.armed /\ ~t.inProgress

(* C34: when every lookup fails or reports the one expiration date, the    *)
(* tasks following one getPurchases call are at most four, one for each of *)
(* pre-expiration, post-expiration and the retry of either; a task starts  *)
(* at most one lookup, its timer being disarmed for good when it fires;    *)
(* and eventually no timer is armed and no lookup is awaited, for ever.    *)
C34_ChainTerminates ==
    /\ [](/\ Cardinality(heap) <= 4
          /\ \A t \in heap : t.reason \in ChainReasons /\ t.subscriptionId = "sub_1"
          /\ \A t, u \in heap : t.reason = u.reason => t = u)
    /\ [][\A t \in heap : ~t.armed => \A u \in heap' : u.id = t.id => ~u.armed]_vars
    /\ [][\A t \in IF last'.op = "timer" /\ last'.res = "fetch" THEN heap ELSE {} :
             ChainFire(t) => t.armed /\ \E u \in heap' : u.id = t.id /\ ~u.armed]_vars
    /\ <>[]ChainQuiet

(* C34 witness: the key of sub_1 is stored, the pre-expiration and the     *)
(* post-expiration lookup failed and each left its retry, the last lookup  *)
(* failed too, and nothing is armed or awaited                              *)
C34_FourTasksThenQuiet ==
    /\ Cardinality(heap) = 4
    /\ ChainQuiet
    /\ accessKeys["sub_1"] = "k2"
    /\ \A t \in heap : ~t.completed
    /\ last = Did("taskReturn", "fail")

-----------------------------------------------------------------------------
(* Failed calls *)

(* C35: a getPurchases or changePlan call that fails, before its request   *)
(* (no id, no access key) or on its response (transport failure, non-ok    *)
(* status, ok:false, no purchase), leaves the credential map, both         *)
(* pointers and the tasks as they were.                                     *)
C35_FailureChangesNothing ==
    [][(/\ last'.op \in {"getPurchases", "changePlan", "purchasesReturn", "changePlanReturn"}
        /\ last'.res \in {"fail", "missingKey", "noId", "storageError"})
       => /\ accessKeys' = accessKeys
          /\ sessionId' = sessionId
          /\ subscriptionId' = subscriptionId
          /\ heap' = heap]_vars

(* C35 witness: a plan change has failed on its response while a           *)
(* credential, the subscription pointer and an armed task are held         *)
C35_PlanChangeFailedOverState ==
    /\ last = Did("changePlanReturn", "fail")
    /\ accessKeys["sub_1"] = "k2"
    /\ subscriptionId = "sub_1"
    /\ \E t \in Listed(heap) : t.armed

-----------------------------------------------------------------------------
(* Hand-over from the session to the subscription *)

(* the subscription pointer names sub_1 and the rotated key k2 is stored *)
HandedOver == subscriptionId = "sub_1" /\ accessKeys["sub_1"] = "k2"

(* a lookup response carrying new_access_keys {sub_1: k2} hands over, and  *)
(* after the hand-over a call without arguments goes out for sub_1 with k2 *)
HandOverStep ==
    /\ \A resp \in IF last'.op = "purchasesReturn" /\ last'.res = "ok"
                    THEN {r \in StoreResponses : r.newKeys = <<[id |-> "sub_1", key |-> "k2"]>>}
                    ELSE {} :
          PurchasesReturn(resp) => HandedOver'
    /\ \A op \in {"getPurchases", "changePlan", "redirectToCustomerPortal"} \cap {last'.op} :
          (HandedOver /\ Call(op, Null, Null)) => last' = Sent(op, "sub_1", "k2")

-----------------------------------------------------------------------------
(* Storage failure inside _storeAccessKey *)

(* C37: a lookup response that stores a key under a 'sub_' id either sets  *)
(* both the subscription pointer and the map entry of that id, or leaves   *)
(* the pointer and the map as they were, also when a write is refused.     *)
C37_PointerAndEntryTogether ==
    [][\A resp \in IF last'.op = "purchasesReturn" /\ last'.res = "ok"
                   THEN {r \in StoreResponses : r.ok /\ r.newKeys # <<>>}
                   ELSE {} :
         PurchasesReturn(resp)
         => LET e == resp.newKeys[1]
            IN  \/ subscriptionId' = e.id /\ accessKeys'[e.id] = e.key
                \/ subscriptionId' = subscriptionId /\ accessKeys' = accessKeys]_vars
====
